---- MODULE Spec2Model ----
(***************************************************************************)
(* Verification model of the rsstvlm agent orchestration core.             *)
(*                                                                         *)
(*   Spec         AgentWorkflow (src/rsstvlm/agent/workflow.py) driven by  *)
(*                the streaming consumer of src/app.py                     *)
(*   SpecStream   AgenticRAG.stream (src/rsstvlm/agent/agentic_rag.py)     *)
(*   SpecRetrieve CustomRetriever._retrieve                                *)
(*                (src/rsstvlm/services/graphrag/retrieve.py)              *)
(*   SpecPipeline GraphRAGPipeline query and build_index                   *)
(*   SpecRerun    AgentWorkflow started on the context of an earlier run   *)
(*   SpecExtract  AgenticRAG._extract_tool_calls                           *)
(*   SpecLoad     load_documents_from_json                                 *)
(*                                                                         *)
(* Text is a sequence of tokens, so that concatenation is \o and           *)
(* "contains" is membership of a token.  The language model and the tools  *)
(* are the environment: their answers are drawn from small sets.           *)
(***************************************************************************)
EXTENDS Naturals, Sequences, FiniteSets

VARIABLES
    pc,           \* workflow: event waiting to be handled / outcome of the run
    memory,       \* workflow: ctx.store["memory"], sequence of ChatMessage
    sources,      \* workflow: ctx.store["sources"], sequence of ToolOutput
    events,       \* workflow: deltas of the StreamEvents written to the stream
    tool_calls,   \* workflow: ToolCallEvent.tool_calls waiting for dispatch
    result,       \* workflow: StopEvent.result
    submissions,  \* workflow: number of astream_chat_with_tools calls
    dispatched,   \* workflow: number of tool(**kwargs) calls
    round_mark,   \* workflow: number of deltas streamed before the latest response
    oplog,        \* workflow: the effects of the steps, in the order the code makes them
    tools         \* workflow: self.tools, the names of the registered tools

wvars == <<pc, memory, sources, events, tool_calls, result, submissions,
           dispatched, round_mark, oplog, tools>>

VARIABLES
    s_pc,          \* stream(): position in the function
    s_messages,    \* stream(): local list messages
    s_chunks,      \* stream(): local list final_chunks
    s_response,    \* stream(): local variable response
    s_submissions, \* stream(): number of llm chat calls
    s_dispatched,  \* stream(): number of client.call_tool calls
    s_cleanups,    \* stream(): number of client.cleanup calls
    s_iters,       \* stream(): iterations of the while True loop
    s_ret          \* stream(): returned text

svars == <<s_pc, s_messages, s_chunks, s_response, s_submissions,
           s_dispatched, s_cleanups, s_iters, s_ret>>

VARIABLES
    r_pc,      \* retriever: "ready" before _retrieve, "returned" or "raised" after
    r_mode,    \* retriever: self._mode
    r_vector,  \* retriever: nodes returned by the vector retriever
    r_kg,      \* retriever: nodes returned by the graph retriever
    r_out,     \* retriever: list returned by _retrieve
    r_failed   \* retriever: the branches whose backend fails in this call

rvars == <<r_pc, r_mode, r_vector, r_kg, r_out, r_failed>>

VARIABLES
    g_index,   \* pipeline: self.index
    g_engine,  \* pipeline: self.query_engine
    g_log      \* pipeline: the calls made so far and how each of them ended

gvars == <<g_index, g_engine, g_log>>

VARIABLES
    x_pc,        \* extractor: "ready" before _extract_tool_calls, "returned" after
    x_response,  \* extractor: the response it is given
    x_out        \* extractor: the list it returns

xvars == <<x_pc, x_response, x_out>>

VARIABLES
    l_dir,     \* loader: the files of input_dir, each with what its content is
    l_exists,  \* loader: whether the processed-files record exists
    l_record,  \* loader: the lines of the processed-files record
    l_log      \* loader: the calls of load_documents_from_json so far

lvars == <<l_dir, l_exists, l_record, l_log>>

vars == <<wvars, svars, rvars, gvars, xvars, lvars>>

-----------------------------------------------------------------------------
(* Bounds of the model *)

MaxRounds == 3       \* model submissions explored per run
MaxInvocations == 3  \* tool invocations the model requests per run
MaxDeltas == 3       \* chunks the model streams per run
MaxIters == 3        \* iterations of the while loop of stream() explored
MaxNodes == 2        \* nodes returned by one retrieval branch
MaxQueries == 3      \* calls of the pipeline (query, build_index) explored
MaxBlocks == 2       \* tool calls in one field, <tool_call> blocks in one reasoning text
MaxFiles == 2        \* files in the input directory of the loader
MaxLoads == 2        \* calls of load_documents_from_json explored

-----------------------------------------------------------------------------
(* Text helpers *)

RECURSIVE Concat(_)
Concat(texts) ==
    IF texts = <<>> THEN <<>> ELSE Head(texts) \o Concat(Tail(texts))

Contains(text, token) == \E i \in 1..Len(text) : text[i] = token

SeqsUpTo(S, n) == UNION {[1..k -> S] : k \in 0..n}

NoText == <<>>

-----------------------------------------------------------------------------
(* Environment of the workflow: registry, model answers, tool outcomes *)

Registry == {"graph_query"}
ToolNames == {"graph_query", "ghost"}
Queries == {<<"What does excessive NO2 cause?">>}
ExcMsgs == {"boom"}
Outcomes == {"ok", "raise"}

\* One streamed chunk: delta is None (has = FALSE) or a piece of text.
Chunks ==
    {[has |-> FALSE, delta |-> NoText],
     [has |-> TRUE, delta |-> <<"a">>],
     [has |-> TRUE, delta |-> <<"b">>]}

\* A model response streams at least one chunk and requests any number of
\* tools.
ChunkSeqs == SeqsUpTo(Chunks, MaxDeltas) \ {<<>>}
NameSeqs == SeqsUpTo(ToolNames, MaxInvocations)

Message(role, content, calls, id, name) ==
    [role |-> role, content |-> content, tool_calls |-> calls,
     tool_call_id |-> id, name |-> name]

NoId == <<>>
NoName == "-"
None == "None"
NoResult == [response |-> None, sources |-> <<>>]

-----------------------------------------------------------------------------
(* AgentWorkflow, src/rsstvlm/agent/workflow.py *)

\* workflow.py:101  response.delta or ""
DeltaOf(chunk) == IF chunk.has THEN chunk.delta ELSE NoText

\* A slip that would stream the accumulated content instead of the delta.
CumulativeDeltas(chunks) ==
    [i \in 1..Len(chunks) |-> Concat([j \in 1..i |-> DeltaOf(chunks[j])])]

\* workflow.py:100-101  the deltas written to the stream, one per chunk
Deltas(chunks) == [i \in 1..Len(chunks) |-> DeltaOf(chunks[i])]

\* The content the model client accumulates over the chunks of one response.
Accumulated(chunks) ==
    Concat([i \in 1..Len(chunks) |-> IF chunks[i].has THEN chunks[i].delta ELSE NoText])

\* The tool selections the model emits in its response number `round`;
\* every selection has its own id and its own arguments.
Selections(names, round) ==
    [i \in 1..Len(names) |->
        [tool_id |-> <<round, i>>, tool_name |-> names[i],
         tool_kwargs |-> <<"query", round, i>>]]

\* workflow.py:97-100  the last response of the stream: its message holds the
\* content accumulated over all chunks and the tool calls of the response.
LastResponse(chunks, calls) ==
    [message |-> Message("assistant", Accumulated(chunks), calls, NoId, NoName),
     delta |-> DeltaOf(chunks[Len(chunks)])]

\* workflow.py:109-111  get_tool_calls_from_response(error_on_no_tool_call=False)
ToolCallsOf(response) == response.message.tool_calls

\* workflow.py:115-117  the result carried by the StopEvent
StopResult(response, srcs) == [response |-> response, sources |-> srcs]

ResponseText(res) == res.response.message.content

\* workflow.py:126,133  tools_by_name.get(tool_call.tool_name)
Lookup(name) == IF name \in tools THEN name ELSE None

\* workflow.py:149-153  the ToolOutput of a tool that returned: it records
\* the tool, the arguments it was called with and the content it produced.
ToolOutput(name, kwargs) ==
    [tool_name |-> name, content |-> <<"output of", name>>, raw_input |-> kwargs]

\* workflow.py:139-145
NotExistMsg(call, kwargs) ==
    Message("tool", <<"Tool", call.tool_name, "does not exist">>, <<>>,
            kwargs.tool_call_id, kwargs.name)

\* workflow.py:155-161
OutputMsg(output, kwargs) ==
    Message("tool", output.content, <<>>, kwargs.tool_call_id, kwargs.name)

\* workflow.py:163-169
ErrorMsg(e, kwargs) ==
    Message("tool", <<"Encountered error in tool call:", e>>, <<>>,
            kwargs.tool_call_id, kwargs.name)

\* workflow.py:132-169  the for loop over tool_calls.  acc holds the locals
\* tool_msgs and sources, the number of tools called, and whether an
\* exception left the loop.  outs[i] is what the i-th tool does when called.
RECURSIVE RunCalls(_, _, _)
RunCalls(calls, outs, acc) ==
    IF calls = <<>> THEN acc
    ELSE
      LET call == Head(calls)
          tool == Lookup(call.tool_name)
      IN  IF tool = None
          THEN \* line 136: tool.metadata on None raises AttributeError, outside the try
               [acc EXCEPT !.raised = TRUE]
          ELSE
            LET kwargs == [tool_call_id |-> call.tool_id, name |-> tool]
            IN  IF tool = None
                THEN \* line 138: not reached, line 136 has raised for this tool
                     RunCalls(Tail(calls), Tail(outs),
                       [acc EXCEPT !.msgs = Append(@, NotExistMsg(call, kwargs))])
                ELSE IF Head(outs) = "ok"
                THEN RunCalls(Tail(calls), Tail(outs),
                       [acc EXCEPT !.msgs = Append(@, OutputMsg(ToolOutput(tool, call.tool_kwargs), kwargs)),
                                   !.srcs = Append(@, ToolOutput(tool, call.tool_kwargs)),
                                   !.called = @ + 1])
                ELSE RunCalls(Tail(calls), Tail(outs),
                       [acc EXCEPT !.msgs = Append(@, ErrorMsg(CHOOSE e \in ExcMsgs : TRUE, kwargs)),
                                   !.called = @ + 1])

\* A slip that would leave the loop after the first invocation.
DispatchFirstOnly(calls, outs, srcs) ==
    RunCalls(SubSeq(calls, 1, 1), SubSeq(outs, 1, 1),
             [msgs |-> <<>>, srcs |-> srcs, called |-> 0, raised |-> FALSE])

\* A slip that would append a source for every tool message, errors included.
DispatchSourceForAll(calls, outs, srcs) ==
    LET d == RunCalls(calls, outs,
                      [msgs |-> <<>>, srcs |-> srcs, called |-> 0, raised |-> FALSE])
    IN  [d EXCEPT !.srcs = srcs \o [i \in 1..Len(d.msgs) |->
                                        ToolOutput(d.msgs[i].name, calls[i].tool_kwargs)]]

\* A slip that would put the outputs of a round before those of the earlier
\* rounds.
DispatchNewestFirst(calls, outs, srcs) ==
    LET d == RunCalls(calls, outs,
                      [msgs |-> <<>>, srcs |-> <<>>, called |-> 0, raised |-> FALSE])
    IN  [d EXCEPT !.srcs = d.srcs \o srcs]

\* workflow.py:128-169  tool_msgs = [], sources from the store, then the loop
Dispatch(calls, outs, srcs) ==
    RunCalls(calls, outs, [msgs |-> <<>>, srcs |-> srcs, called |-> 0, raised |-> FALSE])

\* One effect of a step: a model submission, a delta written to the event
\* stream, a message put into Memory, the StopEvent; round is the number of
\* the model submission it belongs to.
Op(op, round) == [op |-> op, round |-> round]

\* A slip that would store the assistant message before streaming the deltas.
LlmEffectsPutFirst(chunks, round) ==
    <<Op("submit", round), Op("put_assistant", round)>>
        \o [i \in 1..Len(chunks) |-> Op("delta", round)]

\* workflow.py:97-106  the call of the model, one StreamEvent per chunk of
\* the stream, then memory.put of the assistant message
LlmEffects(chunks, round) ==
    <<Op("submit", round)>>
        \o [i \in 1..Len(chunks) |-> Op("delta", round)]
        \o <<Op("put_assistant", round)>>

\* A slip that would send the workflow back to the model after the StopEvent.
NextEventNeverDone(calls) ==
    IF calls = <<>> THEN "AwaitingModel" ELSE "ToolCallPending"

\* workflow.py:113-119  StopEvent when there is no tool call, else ToolCallEvent
NextEvent(calls) == IF calls = <<>> THEN "Done" ELSE "ToolCallPending"

\* A slip that would put a message in front of the stored ones.
PutFirst(mem, msg) == <<msg>> \o mem

\* memory.put(msg) of workflow.py:80, 105, 173: the message is added at the
\* end of the stored messages.
Put(mem, msg) == Append(mem, msg)

\* workflow.py:172-174  for msg in tool_msgs: memory.put(msg)
RECURSIVE PutAll(_, _)
PutAll(mem, msgs) ==
    IF msgs = <<>> THEN mem ELSE PutAll(Put(mem, Head(msgs)), Tail(msgs))

\* A slip that would start every run with a new Memory.
PrepareContextFresh(ctx_memory, ctx_sources, user_input) ==
    [memory |-> <<Message("user", user_input, <<>>, NoId, NoName)>>,
     sources |-> <<>>]

\* workflow.py:69-85  what prepare_chat_history leaves in the context:
\* sources is set to [], the Memory of the context (a new one when the
\* context has none) gets the user message.
PrepareContext(ctx_memory, ctx_sources, user_input) ==
    [memory |-> Put(ctx_memory, Message("user", user_input, <<>>, NoId, NoName)),
     sources |-> <<>>]

\* A slip that would register the names the model asks for.
SelfToolsLearning(registered, calls) ==
    registered \cup {calls[i].tool_name : i \in 1..Len(calls)}

\* workflow.py:121-180  self.tools after handle_tool_calls: the step reads
\* it into the local tools_by_name (line 126) and never assigns it.
SelfTools(registered, calls) == registered

\* workflow.py:65-88
prepare_chat_history ==
    /\ pc = "Start"
    /\ \E user_input \in Queries :
         LET ctx == PrepareContext(memory, sources, user_input)
         IN  /\ memory' = ctx.memory
             /\ sources' = ctx.sources
    /\ oplog' = Append(oplog, Op("put_user", 0))
    /\ pc' = "AwaitingModel"
    /\ UNCHANGED <<events, tool_calls, result, submissions, dispatched, round_mark, tools>>
    /\ UNCHANGED <<svars, rvars, gvars, xvars, lvars>>

\* The number of tool invocations the model has requested so far in the run.
RECURSIVE Requested(_)
Requested(msgs) ==
    IF msgs = <<>> THEN 0 ELSE Len(Head(msgs).tool_calls) + Requested(Tail(msgs))

\* workflow.py:90-119.  The step has no except clause and no retry policy:
\* when astream_chat_with_tools raises, the step fails and the run ends with
\* the exception.
handle_llm_input ==
    /\ pc = "AwaitingModel"
    /\ submissions < MaxRounds
    /\ \/ \E chunks \in ChunkSeqs, names \in NameSeqs :
            /\ Len(events) + Len(chunks) <= MaxDeltas
            /\ Requested(memory) + Len(names) <= MaxInvocations
            /\ LET response == LastResponse(chunks, Selections(names, submissions + 1))
                   calls == ToolCallsOf(response)
               IN
                /\ events' = events \o Deltas(chunks)
                /\ round_mark' = Len(events)
                /\ memory' = Put(memory, response.message)
                /\ pc' = NextEvent(calls)
                /\ IF calls = <<>>
                   THEN /\ result' = StopResult(response, sources)
                        /\ oplog' = oplog \o LlmEffects(chunks, submissions + 1)
                                          \o <<Op("stop", submissions + 1)>>
                        /\ UNCHANGED tool_calls
                   ELSE /\ tool_calls' = calls
                        /\ oplog' = oplog \o LlmEffects(chunks, submissions + 1)
                        /\ UNCHANGED result
       \/ /\ pc' = "ModelFailed"
          /\ oplog' = Append(oplog, Op("submit_failed", submissions + 1))
          /\ UNCHANGED <<events, round_mark, memory, result, tool_calls>>
    /\ submissions' = submissions + 1
    /\ UNCHANGED <<sources, dispatched, tools>>
    /\ UNCHANGED <<svars, rvars, gvars, xvars, lvars>>

\* workflow.py:121-180.  When the loop raises, the step fails and the run ends
\* with the exception: memory is not written; sources, appended to in place,
\* may or may not be seen by the store.
handle_tool_calls ==
    /\ pc = "ToolCallPending"
    /\ \E outs \in [1..Len(tool_calls) -> Outcomes] :
         LET d == Dispatch(tool_calls, outs, sources)
         IN  /\ dispatched' = dispatched + d.called
             /\ IF d.raised
                THEN /\ pc' = "Failed"
                     /\ sources' \in {sources, d.srcs}
                     /\ UNCHANGED memory
                ELSE /\ pc' = "AwaitingModel"
                     /\ sources' = d.srcs
                     /\ memory' = PutAll(memory, d.msgs)
             /\ oplog' = oplog \o (IF d.raised THEN <<>>
                                   ELSE [i \in 1..Len(d.msgs) |-> Op("put_tool", submissions)])
    /\ tools' = SelfTools(tools, tool_calls)
    /\ tool_calls' = <<>>
    /\ UNCHANGED <<events, result, submissions, round_mark>>
    /\ UNCHANGED <<svars, rvars, gvars, xvars, lvars>>

\* src/app.py:146-154  the text the consumer has accumulated from the stream
FullResponse == Concat(events)

InitW ==
    /\ pc = "Start"
    /\ memory = <<>>
    /\ sources = <<>>
    /\ events = <<>>
    /\ tool_calls = <<>>
    /\ result = NoResult
    /\ submissions = 0
    /\ dispatched = 0
    /\ round_mark = 0
    /\ oplog = <<>>
    /\ tools = Registry

\* The contexts an earlier run of the workflow leaves behind: an answer
\* without tool call, and an answer after one call of graph_query that
\* returned or that raised.
PriorContexts ==
    LET user == Message("user", CHOOSE q \in Queries : TRUE, <<>>, NoId, NoName)
        text == <<[has |-> TRUE, delta |-> <<"a">>]>>
        answer == LastResponse(text, <<>>).message
        asking == LastResponse(text, Selections(<<"graph_query">>, 0)).message
        done(out) == RunCalls(asking.tool_calls, <<out>>,
                              [msgs |-> <<>>, srcs |-> <<>>, called |-> 0, raised |-> FALSE])
    IN  {[memory |-> <<user, answer>>, sources |-> <<>>]}
        \cup {[memory |-> <<user, asking>> \o done(out).msgs \o <<answer>>,
                sources |-> done(out).srcs] : out \in Outcomes}

\* A run started on the context of an earlier run (workflow.run(ctx=ctx)).
InitWAgain ==
    /\ tools = Registry
    /\ pc = "Start"
    /\ \E ctx \in PriorContexts : memory = ctx.memory /\ sources = ctx.sources
    /\ events = <<>>
    /\ tool_calls = <<>>
    /\ result = NoResult
    /\ submissions = 0
    /\ dispatched = 0
    /\ round_mark = 0
    /\ oplog = <<>>

-----------------------------------------------------------------------------
(* AgenticRAG.stream, src/rsstvlm/agent/agentic_rag.py *)

\* A structured tool call names a tool, or carries no name (None).
SNames == {"graph_query", "ghost", None}
STexts == {NoText, <<"a">>}

\* A tool call as stream handles it; encoding tells where it was read from:
\* "structured" for an entry of a tool_calls list, "embedded" for a
\* <tool_call> block of reasoning_content.
STool(id, name, encoding, arguments) ==
    [id |-> id, name |-> name, arguments |-> arguments, encoding |-> encoding]

\* The "arguments" of a function call: a dict, a string, or something else
\* (None).  A dict is written <<"dict", ...>>; the JSON text of a value v is
\* <<"json">> \o v; any other string is text that does not decode.
Arguments(type, value) == [type |-> type, value |-> value]
DictValue == <<"dict", "query">>
JsonText(v) == <<"json">> \o v
ArgumentForms ==
    {Arguments("dict", DictValue),
     Arguments("str", JsonText(DictValue)),
     Arguments("str", JsonText(<<"number", "7">>)),
     Arguments("str", <<"what does NO2 cause">>),
     Arguments("other", <<>>)}

\* The value under "tool_calls" of an additional_kwargs: a list of
\* structured calls, or nothing usable (no dict, no key, not a list).
CallsList(names, source, arguments) ==
    [is_list |-> TRUE,
     items |-> [i \in 1..Len(names) |->
                  STool(<<source, i>>, names[i], "structured", arguments)]]
NotAList == [is_list |-> FALSE, items |-> <<>>]

\* json.loads: text decodes when it is the JSON text of a value.
Decodes(text) == text # <<>> /\ Head(text) = "json"
Decoded(text) == Tail(text)

\* The dict _parse_tool_call returns as arguments: the dict value itself,
\* or {"input": value} when wrapped.
Wrapped(wrapped, value) == [wrapped |-> wrapped, value |-> value]

\* agentic_rag.py:220-231  the arguments of _parse_tool_call
ParseArgs(raw_args) ==
    IF raw_args.type = "dict" THEN Wrapped(FALSE, raw_args.value)
    ELSE IF raw_args.type = "str"
    THEN IF Decodes(raw_args.value)
         THEN LET parsed == Decoded(raw_args.value)
              IN  IF Head(parsed) = "dict" THEN Wrapped(FALSE, parsed)
                  ELSE Wrapped(TRUE, parsed)
         ELSE Wrapped(TRUE, raw_args.value)
    ELSE Wrapped(FALSE, <<"dict">>)

\* agentic_rag.py:256-261  json.dumps(args)
FormatArgs(args) ==
    JsonText(IF args.wrapped THEN <<"dict", "input">> \o args.value ELSE args.value)

\* One <tool_call>...</tool_call> block of a reasoning text whose payload
\* is text in braces: it decodes to a JSON object with that name, or does
\* not decode.
Block(decodes, name) == [decodes |-> decodes, closed |-> TRUE, name |-> name]

\* A block whose payload opens a brace and does not end with one (cut-off
\* JSON); it does not decode.
OpenBlock == [decodes |-> FALSE, closed |-> FALSE, name |-> None]
ValidBlocks(names) == [i \in 1..Len(names) |-> Block(TRUE, names[i])]

\* A response: the message text, the tool_calls of
\* response.additional_kwargs and of response.message.additional_kwargs,
\* and the reasoning_content of each choice of response.raw.
Response(text, kwargs_calls, message_calls, reasoning) ==
    [text |-> text, kwargs_calls |-> kwargs_calls,
     message_calls |-> message_calls, reasoning |-> reasoning]

NoResponse == Response(NoText, NotAList, NotAList, <<>>)

\* What llm_function.chat may answer in stream: a message text and tool
\* calls, either structured or embedded in the reasoning of one choice.
SResponses ==
    {Response(t, NotAList, CallsList(ns, "message", a), <<>>) :
        t \in STexts, ns \in SeqsUpTo(SNames, MaxInvocations), a \in ArgumentForms}
    \cup
    {Response(t, NotAList, NotAList, <<ValidBlocks(ns)>>) :
        t \in STexts, ns \in SeqsUpTo(SNames, MaxInvocations)}

\* agentic_rag.py:263-271
MessageText(response) == response.text

\* agentic_rag.py:176-178  where a match of the pattern
\* <tool_call>\s*(\{.*?\})\s*</tool_call> that starts at the first block
\* ends: .*? stops at the first brace that is followed by </tool_call>, which
\* is the end of the first block whose payload ends with a brace.  0 when no
\* block does.
MatchEnd(blocks) ==
    IF \E j \in 1..Len(blocks) : blocks[j].closed
    THEN CHOOSE j \in 1..Len(blocks) :
            blocks[j].closed /\ \A k \in 1..(j - 1) : ~blocks[k].closed
    ELSE 0

\* agentic_rag.py:171-199  one call per match whose payload decodes, with
\* the ids call_0, call_1, ... in the order of the matches.  A match that
\* runs over several blocks has a payload that does not decode.
RECURSIVE ParseBlocks(_, _)
ParseBlocks(blocks, call_index) ==
    IF blocks = <<>> THEN <<>>
    ELSE
      LET end == MatchEnd(blocks)
          rest == SubSeq(blocks, end + 1, Len(blocks))
      IN  IF end = 0 THEN <<>>
          ELSE IF end > 1 \/ ~Head(blocks).decodes
          THEN ParseBlocks(rest, call_index)
          ELSE <<STool(<<"call", call_index>>, Head(blocks).name, "embedded",
                       Arguments("str", FormatArgs(Wrapped(FALSE, DictValue))))>>
                  \o ParseBlocks(rest, call_index + 1)

ParseReasoningToolCalls(reasoning_content) == ParseBlocks(reasoning_content, 0)

\* agentic_rag.py:143-151  the structured calls of the two additional_kwargs
StructuredCalls(response) ==
    (IF response.kwargs_calls.is_list THEN response.kwargs_calls.items ELSE <<>>)
        \o (IF response.message_calls.is_list THEN response.message_calls.items ELSE <<>>)

\* agentic_rag.py:160-168  the calls parsed from the reasoning of every choice
RECURSIVE EmbeddedCalls(_)
EmbeddedCalls(choices) ==
    IF choices = <<>> THEN <<>>
    ELSE ParseReasoningToolCalls(Head(choices)) \o EmbeddedCalls(Tail(choices))

\* A slip that would add the embedded calls to the structured ones.
ExtractToolCallsBoth(response) ==
    StructuredCalls(response) \o EmbeddedCalls(response.reasoning)

\* agentic_rag.py:141-169
ExtractToolCalls(response) ==
    LET structured == StructuredCalls(response)
    IN  IF structured # <<>> THEN structured
        ELSE EmbeddedCalls(response.reasoning)

\* A slip that would discard a call whose arguments do not decode.
ParseToolCallStrict(tool_call) ==
    IF tool_call.arguments.type = "str" /\ ~Decodes(tool_call.arguments.value)
    THEN [name |-> None, args |-> Wrapped(FALSE, <<"dict">>)]
    ELSE [name |-> tool_call.name, args |-> ParseArgs(tool_call.arguments)]

\* agentic_rag.py:201-233
ParseToolCall(tool_call) ==
    [name |-> tool_call.name, args |-> ParseArgs(tool_call.arguments)]

\* agentic_rag.py:235-254  rendering of what a tool returned
RenderToolContent(name) == <<"output of", name>>

\* agentic_rag.py:84-86
ToolChunk(name, args, text) ==
    <<"\n[Tool", name, "used with args:">> \o FormatArgs(args) \o <<"]\n">> \o text

\* agentic_rag.py:104  "\n".join(chunk for chunk in final_chunks if chunk)
RECURSIVE JoinChunks(_)
JoinChunks(chunks) ==
    IF chunks = <<>> THEN NoText
    ELSE IF Head(chunks) = NoText THEN JoinChunks(Tail(chunks))
    ELSE LET rest == JoinChunks(Tail(chunks))
         IN  IF rest = NoText THEN Head(chunks) ELSE Head(chunks) \o <<"\n">> \o rest

\* agentic_rag.py:75-93  the for loop over tool_calls; call_tool is awaited
\* outside any except clause, so its exception leaves the loop.
RECURSIVE SRunCalls(_, _, _)
SRunCalls(calls, outs, acc) ==
    IF calls = <<>> THEN acc
    ELSE
      LET parsed == ParseToolCall(Head(calls))
      IN  IF parsed.name = None
          THEN SRunCalls(Tail(calls), Tail(outs), acc)
          ELSE IF Head(outs) = "raise"
          THEN [acc EXCEPT !.called = @ + 1, !.raised = TRUE]
          ELSE
            LET result_text == RenderToolContent(parsed.name)
            IN  SRunCalls(Tail(calls), Tail(outs),
                  [acc EXCEPT
                     !.called = @ + 1,
                     !.chunks = Append(@, ToolChunk(parsed.name, parsed.args, result_text)),
                     !.msgs = Append(@, Message("user", result_text, <<>>, NoId, NoName))])

\* A slip that would call cleanup on the normal return only.
ExitCleanupsOnReturn(cleanups, path) ==
    IF path = "returned" THEN cleanups + 1 ELSE cleanups

\* agentic_rag.py:47, 101-102  the try ... finally around the model calls
\* and the loop: client.cleanup() is awaited once when the try block is
\* left, by whichever path.
ExitCleanups(cleanups, path) == cleanups + 1

\* agentic_rag.py:34-51.  The first model call is inside the try block: when
\* it raises, the finally clause runs and the exception leaves stream.
StreamBegin ==
    /\ s_pc = "start"
    /\ \E query \in Queries :
         s_messages' =
           << Message("system", <<"You are an agentic RAG system">>, <<>>, NoId, NoName),
              Message("user", query, <<>>, NoId, NoName) >>
    /\ s_chunks' = <<>>
    /\ s_submissions' = s_submissions + 1
    /\ \/ /\ \E response \in SResponses : s_response' = response
          /\ s_pc' = "loop"
          /\ UNCHANGED s_cleanups
       \/ /\ s_pc' = "model_raised"
          /\ s_cleanups' = ExitCleanups(s_cleanups, "model_raised")
          /\ UNCHANGED s_response
    /\ UNCHANGED <<s_dispatched, s_iters, s_ret>>
    /\ UNCHANGED <<wvars, rvars, gvars, xvars, lvars>>

\* agentic_rag.py:53-93  one iteration of while True.  response is not
\* assigned in the loop body.  An exception of call_tool runs the finally
\* clause (cleanup) and leaves stream.
StreamIteration ==
    /\ s_pc = "loop"
    /\ s_iters < MaxIters
    /\ s_iters' = s_iters + 1
    /\ LET assistant_text == MessageText(s_response)
           chunks1 == IF assistant_text # NoText
                      THEN Append(s_chunks, assistant_text) ELSE s_chunks
           calls == ExtractToolCalls(s_response)
       IN  IF calls = <<>>
           THEN /\ s_chunks' = chunks1
                /\ s_pc' = "after_loop"
                /\ UNCHANGED <<s_messages, s_dispatched, s_cleanups>>
           ELSE \E outs \in [1..Len(calls) -> Outcomes] :
                  LET start == [msgs |-> Append(s_messages,
                                           Message("assistant", assistant_text, calls, NoId, NoName)),
                                chunks |-> chunks1, called |-> 0, raised |-> FALSE]
                      d == SRunCalls(calls, outs, start)
                  IN  /\ s_messages' = d.msgs
                      /\ s_chunks' = d.chunks
                      /\ s_dispatched' = s_dispatched + d.called
                      /\ IF d.raised
                         THEN /\ s_pc' = "tool_raised"
                              /\ s_cleanups' = ExitCleanups(s_cleanups, "tool_raised")
                         ELSE s_pc' = "loop" /\ UNCHANGED s_cleanups
    /\ UNCHANGED <<s_response, s_submissions, s_ret>>
    /\ UNCHANGED <<wvars, rvars, gvars, xvars, lvars>>

\* agentic_rag.py:94-104  after the loop: one more chat call, the finally
\* clause, the return.
StreamFinish ==
    /\ s_pc = "after_loop"
    /\ s_submissions' = s_submissions + 1
    /\ \/ /\ \E response \in SResponses : s_response' = response
          /\ s_cleanups' = ExitCleanups(s_cleanups, "returned")
          /\ s_ret' = JoinChunks(s_chunks)
          /\ s_pc' = "returned"
       \/ /\ s_cleanups' = ExitCleanups(s_cleanups, "model_raised")
          /\ s_pc' = "model_raised"
          /\ UNCHANGED <<s_response, s_ret>>
    /\ UNCHANGED <<s_messages, s_chunks, s_dispatched, s_iters>>
    /\ UNCHANGED <<wvars, rvars, gvars, xvars, lvars>>

InitS ==
    /\ s_pc = "start"
    /\ s_messages = <<>>
    /\ s_chunks = <<>>
    /\ s_response = NoResponse
    /\ s_submissions = 0
    /\ s_dispatched = 0
    /\ s_cleanups = 0
    /\ s_iters = 0
    /\ s_ret = NoText

-----------------------------------------------------------------------------
(* CustomRetriever._retrieve, src/rsstvlm/services/graphrag/retrieve.py *)

Ids == {"a", "b", "c"}
Modes == {"AND", "OR"}

\* The list a branch returns: node i has the identifier ids[i]; origin and
\* rank tell the NodeWithScore objects apart.
BranchNodes(origin, ids) ==
    [i \in 1..Len(ids) |-> [node_id |-> ids[i], origin |-> origin, rank |-> i]]

\* retrieve.py:39-40  {n.node.node_id for n in nodes}
IdSet(nodes) == {nodes[i].node_id : i \in 1..Len(nodes)}

\* retrieve.py:42-43  a dict comprehension keeps the last node of an
\* identifier; update() lets the graph nodes overwrite the vector nodes.
LastWith(nodes, id) ==
    nodes[CHOOSE i \in 1..Len(nodes) :
            /\ nodes[i].node_id = id
            /\ \A j \in (i + 1)..Len(nodes) : nodes[j].node_id # id]

\* A slip that would let the vector node win an identifier clash.
CombinedDictVectorFirst(vector_nodes, kg_nodes) ==
    [id \in IdSet(vector_nodes) \cup IdSet(kg_nodes) |->
        IF id \in IdSet(vector_nodes) THEN LastWith(vector_nodes, id)
        ELSE LastWith(kg_nodes, id)]

\* retrieve.py:42-43
CombinedDict(vector_nodes, kg_nodes) ==
    [id \in IdSet(vector_nodes) \cup IdSet(kg_nodes) |->
        IF id \in IdSet(kg_nodes) THEN LastWith(kg_nodes, id)
        ELSE LastWith(vector_nodes, id)]

\* t2c.py:159-239  Text2CypherRetriever._retrieve returns [] when the
\* schema, the generation of the query or its execution fails.
Text2CypherRetrieve(failed, nodes) == IF failed THEN <<>> ELSE nodes

\* A slip that would take the union in both modes.
RetrieveIdsUnion(mode, vector_ids, kg_ids) == vector_ids \cup kg_ids

\* retrieve.py:45-48
RetrieveIds(mode, vector_ids, kg_ids) ==
    IF mode = "AND" THEN vector_ids \cap kg_ids ELSE vector_ids \cup kg_ids

\* The orders in which a set may be iterated.
Orderings(S) ==
    {f \in [1..Cardinality(S) -> S] : \A i, j \in 1..Cardinality(S) : f[i] = f[j] => i = j}

\* A slip that would walk the two node lists instead of the identifier set.
RetrieveFromLists(mode, vector_nodes, kg_nodes) ==
    LET retrieve_ids == RetrieveIds(mode, IdSet(vector_nodes), IdSet(kg_nodes))
    IN  {SelectSeq(vector_nodes \o kg_nodes, LAMBDA n : n.node_id \in retrieve_ids)}

\* retrieve.py:30-51  the lists _retrieve may return: one per iteration
\* order of the set retrieve_ids.
Retrieve(mode, vector_nodes, kg_nodes) ==
    LET combined_dict == CombinedDict(vector_nodes, kg_nodes)
        retrieve_ids == RetrieveIds(mode, IdSet(vector_nodes), IdSet(kg_nodes))
    IN  {[i \in 1..Len(order) |-> combined_dict[order[i]]] : order \in Orderings(retrieve_ids)}

\* retrieve.py:30-51.  The two retrieve calls of lines 33-34 are in no try
\* block: an exception of the vector retriever leaves _retrieve.
DoRetrieve ==
    /\ r_pc = "ready"
    /\ IF "vector" \in r_failed
       THEN r_pc' = "raised" /\ UNCHANGED r_out
       ELSE r_pc' = "returned" /\ r_out' \in Retrieve(r_mode, r_vector, r_kg)
    /\ UNCHANGED <<r_mode, r_vector, r_kg, r_failed>>
    /\ UNCHANGED <<wvars, svars, gvars, xvars, lvars>>

InitR ==
    /\ r_pc = "ready"
    /\ r_mode \in Modes
    /\ \E ids \in SeqsUpTo(Ids, MaxNodes) : r_vector = BranchNodes("vector", ids)
    /\ r_failed \in SUBSET {"vector", "kg"}
    /\ \E ids \in SeqsUpTo(Ids, MaxNodes) :
         r_kg = Text2CypherRetrieve("kg" \in r_failed, BranchNodes("kg", ids))
    /\ r_out = <<>>

-----------------------------------------------------------------------------
(* GraphRAGPipeline, src/rsstvlm/services/graphrag/pipeline.py *)

\* pipeline.py:119-122  the string query returns when the engine is not ready
NotReady == <<"GraphRAG query engine is not ready.">>

\* Where the initialisation of the engine fails, if it does: in
\* PropertyGraphIndex.from_existing, in build_communities, or in the
\* constructor of GraphRAGQueryEngine.
InitFaults == {"none", "from_existing", "build_communities", "query_engine"}

\* What custom_query does: answer, or raise.
Answers == {<<"answer a">>, <<"answer b">>}
QueryOutcomes == Answers \cup {<<"raise">>}

\* pipeline.py:126-136  _create_query_engine: the engine it leaves in
\* self.query_engine, and whether it raised.
CreateQueryEngine(index, engine, fault) ==
    IF index = None THEN [engine |-> engine, raised |-> FALSE]
    ELSE IF fault \in {"build_communities", "query_engine"}
    THEN [engine |-> engine, raised |-> TRUE]
    ELSE [engine |-> "engine", raised |-> FALSE]

\* A slip that would let the exception of the initialisation leave
\* _ensure_query_engine.
EnsureQueryEngineNoExcept(index, engine, fault) ==
    IF engine # None
    THEN [index |-> index, engine |-> engine, ready |-> TRUE,
          init |-> "skipped", raised |-> FALSE]
    ELSE IF index = None /\ fault = "from_existing"
    THEN [index |-> index, engine |-> engine, ready |-> FALSE,
          init |-> fault, raised |-> TRUE]
    ELSE LET c == CreateQueryEngine("index", engine, fault)
         IN  [index |-> "index", engine |-> c.engine, ready |-> ~c.raised,
              init |-> IF c.raised THEN fault ELSE "done", raised |-> c.raised]

\* A slip that would initialise the engine again on every query.
EnsureQueryEngineAlways(index, engine, fault) ==
    IF index = None /\ fault = "from_existing"
    THEN [index |-> None, engine |-> None, ready |-> FALSE,
          init |-> fault, raised |-> FALSE]
    ELSE LET c == CreateQueryEngine("index", engine, fault)
         IN  IF c.raised
             THEN [index |-> None, engine |-> None, ready |-> FALSE,
                   init |-> fault, raised |-> FALSE]
             ELSE [index |-> "index", engine |-> c.engine,
                   ready |-> c.engine # None, init |-> "done", raised |-> FALSE]

\* pipeline.py:138-156  _ensure_query_engine: the fields it leaves, the
\* value it returns (ready), the initialisation step that failed (init),
\* and whether an exception left it.
EnsureQueryEngine(index, engine, fault) ==
    IF engine # None
    THEN [index |-> index, engine |-> engine, ready |-> TRUE,
          init |-> "skipped", raised |-> FALSE]
    ELSE IF index = None /\ fault = "from_existing"
    THEN [index |-> None, engine |-> None, ready |-> FALSE,
          init |-> fault, raised |-> FALSE]
    ELSE LET c == CreateQueryEngine("index", engine, fault)
         IN  IF c.raised
             THEN [index |-> None, engine |-> None, ready |-> FALSE,
                   init |-> fault, raised |-> FALSE]
             ELSE [index |-> "index", engine |-> c.engine,
                   ready |-> c.engine # None, init |-> "done", raised |-> FALSE]

\* One entry of g_log.
Call(name, init, raised, ret) ==
    [call |-> name, init |-> init, raised |-> raised, ret |-> ret]

\* pipeline.py:117-124  query
query ==
    /\ Len(g_log) < MaxQueries
    /\ \E fault \in InitFaults, out \in QueryOutcomes :
         LET e == EnsureQueryEngine(g_index, g_engine, fault)
         IN  /\ g_index' = e.index
             /\ g_engine' = e.engine
             /\ g_log' = Append(g_log,
                  IF e.raised THEN Call("query", e.init, TRUE, NoText)
                  ELSE IF ~e.ready THEN Call("query", e.init, FALSE, NotReady)
                  ELSE IF out = <<"raise">> THEN Call("query", e.init, TRUE, NoText)
                  ELSE Call("query", e.init, FALSE, out))
    /\ UNCHANGED <<wvars, svars, rvars, xvars, lvars>>

\* pipeline.py:50-89  build_index sets self.index unless loading the
\* documents or building the index raises; it leaves self.query_engine.
build_index ==
    /\ Len(g_log) < MaxQueries
    /\ \E ok \in BOOLEAN :
         /\ g_index' = IF ok THEN "index" ELSE g_index
         /\ g_log' = Append(g_log,
              IF ok THEN Call("build_index", "skipped", FALSE, <<"Index built successfully.">>)
              ELSE Call("build_index", "skipped", TRUE, NoText))
    /\ UNCHANGED g_engine
    /\ UNCHANGED <<wvars, svars, rvars, xvars, lvars>>

\* pipeline.py:30-48
InitG ==
    /\ g_index = None
    /\ g_engine = None
    /\ g_log = <<>>

-----------------------------------------------------------------------------
(* AgenticRAG._extract_tool_calls on its own, agentic_rag.py:141-169 *)

XNames == {"graph_query", None}
XBlocks == {Block(FALSE, None), OpenBlock} \cup {Block(TRUE, n) : n \in XNames}
XBlockSeqs == SeqsUpTo(XBlocks, MaxBlocks)

\* The responses the extractor is checked on: each additional_kwargs holds
\* no list or a list of structured calls, and raw holds no, one or two
\* choices with a reasoning text.
XResponses ==
    {Response(NoText, k, m, r) :
        k \in {NotAList, CallsList(<<>>, "response", Arguments("dict", DictValue)),
               CallsList(<<"graph_query">>, "response", Arguments("dict", DictValue))},
        m \in {NotAList} \cup {CallsList(ns, "message", Arguments("dict", DictValue)) :
                                  ns \in SeqsUpTo(XNames, MaxBlocks)},
        r \in {<<>>} \cup {<<c>> : c \in XBlockSeqs}
                     \cup {<<c, d>> : c \in XBlockSeqs, d \in {<<>>, <<Block(TRUE, "graph_query")>>}}}

Extract ==
    /\ x_pc = "ready"
    /\ x_out' = ExtractToolCalls(x_response)
    /\ x_pc' = "returned"
    /\ UNCHANGED x_response
    /\ UNCHANGED <<wvars, svars, rvars, gvars, lvars>>

InitX ==
    /\ x_pc = "ready"
    /\ x_response \in XResponses
    /\ x_out = <<>>

-----------------------------------------------------------------------------
(* load_documents_from_json, src/rsstvlm/services/graphrag/pipeline.py and  *)
(* parse.py                                                                 *)

\* A file name is a sequence of tokens ending with its extension; " " is
\* white space at either end of the name.
FileNames ==
    {<<"a", ".json">>, <<"b", ".JSON">>, <<" ", "c", ".json">>, <<"notes", ".txt">>}

\* What a file holds: a JSON object with text, a JSON object without text,
\* text that is not JSON, or JSON that is not an object.
FileKinds == {"text", "empty", "invalid", "array"}

Dirs ==
    UNION {[S -> FileKinds] :
              S \in {T \in SUBSET FileNames : Cardinality(T) <= MaxFiles}}

\* num_files_limit: 0 stands for None (and for 0, which is as falsy)
Limits == {0, 1}

\* str.lower on an extension
Lower(token) == IF token = ".JSON" THEN ".json" ELSE token

\* pipeline.py:185  f.lower().endswith(".json")
IsJson(name) == Lower(name[Len(name)]) = ".json"

\* str.strip: white space at both ends of the line is dropped
RECURSIVE StripLeft(_)
StripLeft(line) ==
    IF line # <<>> /\ Head(line) = " " THEN StripLeft(Tail(line)) ELSE line

RECURSIVE StripRight(_)
StripRight(line) ==
    IF line # <<>> /\ line[Len(line)] = " "
    THEN StripRight(SubSeq(line, 1, Len(line) - 1))
    ELSE line

Strip(line) == StripRight(StripLeft(line))

\* pipeline.py:171-182  the record is read only if it exists; a failed read
\* is logged and leaves the set empty
ProcessedSet(exists, record, read_ok) ==
    IF exists /\ read_ok
    THEN {Strip(record[i]) : i \in {j \in 1..Len(record) : Strip(record[j]) # <<>>}}
    ELSE {}

\* pipeline.py:184-197  the listing filtered by extension and by the record,
\* then cut to num_files_limit
JsonFiles(listing, processed_set, num_files_limit) ==
    LET IsNew(f) == IsJson(f) /\ f \notin processed_set
        json_files == SelectSeq(listing, IsNew)
    IN  IF num_files_limit # 0 /\ num_files_limit < Len(json_files)
        THEN SubSeq(json_files, 1, num_files_limit)
        ELSE json_files

\* pipeline.py:220-230  the sections joined into one text
FullText(kind) == IF kind = "text" THEN <<"## abstract", "[1] paragraph">> ELSE <<>>

\* pipeline.py:212-217, 233-236
Document(json_file, kind) ==
    [text |-> FullText(kind), metadata |-> [source |-> json_file]]

\* pipeline.py:199-241  the loop over the selected files: a file that is not
\* JSON is skipped, a file without text gives nothing, and data.get on JSON
\* that is not an object raises out of the loop
RECURSIVE LoadFiles(_, _, _, _)
LoadFiles(dir, json_files, documents, newly_processed) ==
    IF json_files = <<>>
    THEN [documents |-> documents, newly_processed |-> newly_processed, raised |-> FALSE]
    ELSE LET json_file == Head(json_files)
             kind == dir[json_file]
         IN  CASE kind = "invalid" ->
                    LoadFiles(dir, Tail(json_files), documents, newly_processed)
               [] kind = "array" ->
                    [documents |-> documents, newly_processed |-> newly_processed,
                     raised |-> TRUE]
               [] FullText(kind) # <<>> ->
                    LoadFiles(dir, Tail(json_files),
                              Append(documents, Document(json_file, kind)),
                              Append(newly_processed, json_file))
               [] OTHER ->
                    LoadFiles(dir, Tail(json_files), documents, newly_processed)

\* pipeline.py:243-255  newly_processed is appended to the record, which
\* the append creates; a failed write is logged and leaves the record alone
WriteRecord(record, newly_processed, write_ok) ==
    IF newly_processed # <<>> /\ write_ok THEN record \o newly_processed ELSE record

\* pipeline.py:158-258 (and parse.py:8-95, the same code as a function)
load_documents_from_json ==
    /\ Len(l_log) < MaxLoads
    /\ \E num_files_limit \in Limits, read_ok \in BOOLEAN, write_ok \in BOOLEAN,
          listing \in Orderings(DOMAIN l_dir) :
          LET processed_set == ProcessedSet(l_exists, l_record, read_ok)
              json_files == JsonFiles(listing, processed_set, num_files_limit)
              loaded == LoadFiles(l_dir, json_files, <<>>, <<>>)
              wrote == loaded.newly_processed # <<>> /\ write_ok
          IN  IF loaded.raised
              THEN /\ l_log' = Append(l_log,
                        [raised |-> TRUE, read_failed |-> l_exists /\ ~read_ok,
                         write_failed |-> FALSE, before |-> l_record,
                         after |-> l_record, documents |-> <<>>])
                   /\ UNCHANGED <<l_record, l_exists>>
              ELSE /\ l_record' = WriteRecord(l_record, loaded.newly_processed, write_ok)
                   /\ l_exists' = (l_exists \/ wrote)
                   /\ l_log' = Append(l_log,
                        [raised |-> FALSE, read_failed |-> l_exists /\ ~read_ok,
                         write_failed |-> loaded.newly_processed # <<>> /\ ~write_ok,
                         before |-> l_record, after |-> l_record',
                         documents |-> loaded.documents])
    /\ UNCHANGED l_dir
    /\ UNCHANGED <<wvars, svars, rvars, gvars, xvars>>

\* A directory of files and no processed-files record yet.
InitL ==
    /\ l_dir \in Dirs
    /\ l_exists = FALSE
    /\ l_record = <<>>
    /\ l_log = <<>>

-----------------------------------------------------------------------------
(* Specifications *)

\* The components a specification does not run.
IdleW ==
    /\ pc = "Idle" /\ memory = <<>> /\ sources = <<>> /\ events = <<>>
    /\ tool_calls = <<>> /\ result = NoResult /\ submissions = 0
    /\ dispatched = 0 /\ round_mark = 0 /\ oplog = <<>> /\ tools = {}

IdleS ==
    /\ s_pc = "idle" /\ s_messages = <<>> /\ s_chunks = <<>>
    /\ s_response = NoResponse
    /\ s_submissions = 0 /\ s_dispatched = 0 /\ s_cleanups = 0
    /\ s_iters = 0 /\ s_ret = NoText

IdleR ==
    /\ r_pc = "idle" /\ r_mode = "OR" /\ r_vector = <<>> /\ r_kg = <<>>
    /\ r_out = <<>> /\ r_failed = {}

IdleG ==
    /\ g_index = None /\ g_engine = None /\ g_log = <<>>

IdleX ==
    /\ x_pc = "idle" /\ x_response = NoResponse /\ x_out = <<>>

IdleL ==
    /\ l_dir = <<>> /\ l_exists = FALSE /\ l_record = <<>> /\ l_log = <<>>

Init == InitW /\ IdleS /\ IdleR /\ IdleG /\ IdleX /\ IdleL

Next ==
    \/ prepare_chat_history
    \/ handle_llm_input
    \/ handle_tool_calls

Spec == Init /\ [][Next]_vars

InitStream == IdleW /\ InitS /\ IdleR /\ IdleG /\ IdleX /\ IdleL

NextStream ==
    \/ StreamBegin
    \/ StreamIteration
    \/ StreamFinish

SpecStream == InitStream /\ [][NextStream]_vars

InitRetrieve == IdleW /\ IdleS /\ InitR /\ IdleG /\ IdleX /\ IdleL

NextRetrieve == DoRetrieve

SpecRetrieve == InitRetrieve /\ [][NextRetrieve]_vars

InitPipeline == IdleW /\ IdleS /\ IdleR /\ InitG /\ IdleX /\ IdleL

NextPipeline ==
    \/ query
    \/ build_index

SpecPipeline == InitPipeline /\ [][NextPipeline]_vars

InitRerun == InitWAgain /\ IdleS /\ IdleR /\ IdleG /\ IdleX /\ IdleL

NextRerun ==
    \/ prepare_chat_history
    \/ handle_llm_input
    \/ handle_tool_calls

SpecRerun == InitRerun /\ [][NextRerun]_vars

InitExtract == IdleW /\ IdleS /\ IdleR /\ IdleG /\ InitX /\ IdleL

NextExtract == Extract

SpecExtract == InitExtract /\ [][NextExtract]_vars

InitLoad == IdleW /\ IdleS /\ IdleR /\ IdleG /\ IdleX /\ InitL

NextLoad == load_documents_from_json

SpecLoad == InitLoad /\ [][NextLoad]_vars

-----------------------------------------------------------------------------
(* Properties *)

ToolCount(msgs) == Len(SelectSeq(msgs, LAMBDA m : m.role = "tool"))

IsError(m) == m.content[1] = "Encountered error in tool call:"

HasUnknown(calls) == \E i \in 1..Len(calls) : calls[i].tool_name \notin Registry

\* C1: when the first model response carries no tool call, the run stops
\* after exactly one model submission, dispatches no tool and returns the
\* text of that response unchanged.  In stream() a return is reached only
\* through the break of the first iteration, so every returned run is such
\* a run.  Stated for AgenticRAG.stream, which submits a second time after
\* the loop (agentic_rag.py:94).
C1_OneSubmission ==
    (s_pc = "returned" /\ Len(s_messages) = 2) =>
        /\ s_submissions = 1
        /\ s_dispatched = 0
        /\ s_ret = Concat(s_chunks)

\* C2: a run whose model requests a tool in every response makes no more
\* model submissions than a configured round bound.  The source configures
\* no such bound; RoundBound stands for any value of it below the number of
\* submissions the model explores.
RoundBound == MaxRounds - 1

AlwaysRequests ==
    \A i \in 1..Len(memory) :
        memory[i].role = "assistant" => memory[i].tool_calls # <<>>

C2_RoundBound == AlwaysRequests => submissions <= RoundBound

\* C3: when an invocation names an unregistered tool, handle_tool_calls does
\* not raise: the run goes on to the next model round and Memory gains, for
\* that invocation, a tool message containing "does not exist".
C3_UnknownToolReported ==
    [][(pc = "ToolCallPending" /\ HasUnknown(tool_calls)) =>
          /\ pc' = "AwaitingModel"
          /\ Len(memory') = Len(memory) + Len(tool_calls)
          /\ \A i \in 1..Len(tool_calls) :
                tool_calls[i].tool_name \notin Registry =>
                    /\ memory'[Len(memory) + i].role = "tool"
                    /\ Contains(memory'[Len(memory) + i].content, "does not exist")]_vars

\* C4: an exception raised by a tool during dispatch never aborts the run.
\* Stated for AgenticRAG.stream, where call_tool is awaited outside any
\* except clause (agentic_rag.py:80-82).
C4_ToolFailureContained == s_pc # "tool_raised"

\* C5: a round with N extracted invocations appends exactly N tool messages
\* to Memory, the i-th carrying the id of the i-th invocation, whatever the
\* outcome of each call (success, unknown tool, exception).
C5_RoundAppendsN ==
    [][pc = "ToolCallPending" =>
          /\ Len(memory') = Len(memory) + Len(tool_calls)
          /\ \A i \in 1..Len(tool_calls) :
                /\ memory'[Len(memory) + i].role = "tool"
                /\ memory'[Len(memory) + i].tool_call_id = tool_calls[i].tool_id]_vars

\* C6 as claimed: in a finished run that streamed at least one delta, the
\* response text of the result is the concatenation of all deltas streamed
\* during the run.
C6_AllDeltas ==
    (pc = "Done" /\ Len(events) > 0) => ResponseText(result) = FullResponse

\* C6 as amended: the response text of the result is the concatenation, in
\* emission order, of the deltas streamed during the last model round; in a
\* run of one round these are all the deltas the consumer has received.
C6_LastRoundDeltas ==
    pc = "Done" =>
        /\ ResponseText(result) = Concat(SubSeq(events, round_mark + 1, Len(events)))
        /\ submissions = 1 => ResponseText(result) = FullResponse

C6_Witness ==
    /\ pc = "Done"
    /\ submissions = 2
    /\ round_mark = 1 /\ events[1] # NoText
    /\ ResponseText(result) = <<"a", "b">>

\* C7: _retrieve returns exactly the nodes whose identifier is in the union
\* of the two branches' identifiers in mode OR and in their intersection in
\* mode AND, each a node one of the branches returned; two empty branches
\* give the empty list.
InBranch(nodes, id) == \E i \in 1..Len(nodes) : nodes[i].node_id = id

C7_SetSemantics ==
    r_pc = "returned" =>
        /\ \A id \in Ids :
              InBranch(r_out, id) <=>
                  IF r_mode = "AND"
                  THEN InBranch(r_vector, id) /\ InBranch(r_kg, id)
                  ELSE InBranch(r_vector, id) \/ InBranch(r_kg, id)
        /\ \A i \in 1..Len(r_out) :
              \E j \in 1..Len(r_vector \o r_kg) : (r_vector \o r_kg)[j] = r_out[i]
        /\ (r_vector = <<>> /\ r_kg = <<>>) => r_out = <<>>

C7_Witness ==
    /\ r_pc = "returned"
    /\ r_mode = "AND"
    /\ IdSet(r_vector) = {"a", "b"}
    /\ IdSet(r_kg) = {"b", "c"}
    /\ IdSet(r_out) = {"b"}

\* C8: the list _retrieve returns never holds two nodes with the same
\* identifier, also when a branch repeats an identifier or both branches
\* return it.
C8_NoDuplicateIds ==
    r_pc = "returned" =>
        \A i, j \in 1..Len(r_out) : r_out[i].node_id = r_out[j].node_id => i = j

C8_Witness ==
    /\ r_pc = "returned"
    /\ Len(r_vector) = 2 /\ r_vector[1].node_id = r_vector[2].node_id
    /\ InBranch(r_kg, r_vector[1].node_id)
    /\ Len(r_out) = 2

\* C9: Memory is the user message, then per round the assistant message
\* directly followed by the tool messages of its invocations, in order, then
\* the final assistant message.  A run with one successful tool call in
\* round 1 and an answer without tool call in round 2 ends with the four
\* entries user, assistant, tool, assistant and one source.
Layout(m) ==
    /\ Len(m) >= 1 => m[1].role = "user"
    /\ Len(m) >= 2 => m[2].role = "assistant"
    /\ \A i \in 2..Len(m) :
          \/ /\ m[i].role = "assistant"
             /\ i < Len(m) =>
                   /\ m[i].tool_calls # <<>>
                   /\ i + Len(m[i].tool_calls) <= Len(m)
             /\ \A k \in 1..Len(m[i].tool_calls) :
                   i + k <= Len(m) =>
                       /\ m[i + k].role = "tool"
                       /\ m[i + k].tool_call_id = m[i].tool_calls[k].tool_id
             /\ i + Len(m[i].tool_calls) < Len(m) =>
                   m[i + Len(m[i].tool_calls) + 1].role = "assistant"
          \/ /\ m[i].role = "tool"
             /\ \E j \in 2..(i - 1) :
                   /\ m[j].role = "assistant"
                   /\ i - j <= Len(m[j].tool_calls)

C9_MemoryLayout ==
    /\ pc \in {"AwaitingModel", "Done"} => Layout(memory)
    /\ pc = "Done" =>
          /\ memory[Len(memory)].role = "assistant"
          /\ memory[Len(memory)].tool_calls = <<>>
    /\ (/\ pc = "Done"
        /\ submissions = 2
        /\ Len(memory[2].tool_calls) = 1
        /\ ~IsError(memory[3])) =>
          /\ [i \in 1..Len(memory) |-> memory[i].role]
               = <<"user", "assistant", "tool", "assistant">>
          /\ Len(sources) = 1

C9_Witness ==
    /\ pc = "Done"
    /\ Len(memory) = 4
    /\ memory[3].content = ToolOutput("graph_query", <<"query", 1, 1>>).content
    /\ Len(sources) = 1

RECURSIVE AllCalls(_)
AllCalls(msgs) ==
    IF msgs = <<>> THEN <<>> ELSE Head(msgs).tool_calls \o AllCalls(Tail(msgs))

CallOf(msgs, id) ==
    LET calls == AllCalls(msgs)
    IN  calls[CHOOSE k \in 1..Len(calls) : calls[k].tool_id = id]

OutputsIn(msgs) ==
    LET outs == SelectSeq(msgs, LAMBDA m : m.role = "tool" /\ ~IsError(m))
    IN  [i \in 1..Len(outs) |->
            [tool_name |-> outs[i].name, content |-> outs[i].content,
             raw_input |-> CallOf(msgs, outs[i].tool_call_id).tool_kwargs]]

StreamToolResults ==
    {i \in 3..Len(s_messages) : s_messages[i].role # "assistant"}

C11_ToolResultsReferenced ==
    \A i \in StreamToolResults :
        /\ s_messages[i].role = "tool"
        /\ \E j \in 1..(i - 1) :
             /\ s_messages[j].role = "assistant"
             /\ \E k \in 1..Len(s_messages[j].tool_calls) :
                  s_messages[j].tool_calls[k].id = s_messages[i].tool_call_id

\* What the consumer of a run sees: the StreamEvents and the StopEvent, in
\* the order the steps wrote them (app.py:119-126).
Observed == SelectSeq(oplog, LAMBDA e : e.op \in {"delta", "stop"})

\* C12  The consumer observes delta events followed by one terminal result
\* carrying response and sources: the terminal result is the last thing
\* observed, so no delta follows it and no second result is produced; the
\* run is Done exactly when the result has been produced.
C12_DeltasThenOneResult ==
    /\ \A i \in 1..Len(Observed) : Observed[i].op = "stop" => i = Len(Observed)
    /\ Len(Observed) = Len(events) + (IF pc = "Done" THEN 1 ELSE 0)
    /\ pc = "Done" <=> (Observed # <<>> /\ Observed[Len(Observed)].op = "stop")
    /\ pc = "Done" => DOMAIN result = {"response", "sources"} /\ result.sources = sources

C12_Witness ==
    /\ pc = "Done"
    /\ Len(Observed) >= 3
    /\ submissions >= 2

\* C13  In every round the deltas of the model response are written to the
\* event stream before the assistant message of that round is put into
\* Memory: no delta of a round follows the put of that round, and every
\* assistant message in Memory was put after a delta of its round.
C13_DeltasBeforePut ==
    /\ \A i, j \in 1..Len(oplog) :
         (i < j /\ oplog[i].op = "put_assistant" /\ oplog[j].op = "delta")
            => oplog[j].round > oplog[i].round
    /\ \A j \in 1..Len(oplog) :
         oplog[j].op = "put_assistant"
            => \E i \in 1..(j - 1) :
                 oplog[i].op = "delta" /\ oplog[i].round = oplog[j].round
    /\ Cardinality({j \in 1..Len(oplog) : oplog[j].op = "put_assistant"})
         = Cardinality({i \in 1..Len(memory) : memory[i].role = "assistant"})

C13_Witness ==
    /\ Cardinality({j \in 1..Len(oplog) : oplog[j].op = "put_assistant"}) >= 2
    /\ Cardinality({j \in 1..Len(oplog) : oplog[j].op = "delta"}) >= 3

\* C14  A failed model submission is retried once with the same Memory
\* snapshot, and the failure ends the run only when the retry failed as
\* well: a run that ended on a model failure made two failed submissions
\* in a row.
C14_FailureSurfacedAfterRetry ==
    pc = "ModelFailed" =>
        /\ Len(oplog) >= 2
        /\ oplog[Len(oplog)].op = "submit_failed"
        /\ oplog[Len(oplog) - 1].op = "submit_failed"

\* C17  When the run reaches Done, the result holds the last assistant
\* message of the run as response, and as sources the outputs of all the
\* invocations of the run that returned, in the order in which the
\* invocations were dispatched (the order of the tool calls in the assistant
\* messages of the run).
Returned(msgs, call) ==
    \E i \in 1..Len(msgs) :
        /\ msgs[i].role = "tool"
        /\ msgs[i].tool_call_id = call.tool_id
        /\ ~IsError(msgs[i])

DispatchedOutputs(msgs) ==
    LET done == SelectSeq(AllCalls(msgs), LAMBDA c : Returned(msgs, c))
    IN  [i \in 1..Len(done) |-> ToolOutput(done[i].tool_name, done[i].tool_kwargs)]

C17_DoneResult ==
    pc = "Done" =>
        /\ memory[Len(memory)].role = "assistant"
        /\ result.response.message = memory[Len(memory)]
        /\ result.sources = DispatchedOutputs(memory)

C17_Witness ==
    /\ pc = "Done"
    /\ Len(result.sources) >= 2
    /\ result.sources[1] # result.sources[2]
    /\ \E i \in 1..Len(memory) : memory[i].role = "tool" /\ IsError(memory[i])

\* C16  query returns the sentinel string and does not raise whenever the
\* initialisation of the index or of the query engine fails; the failed
\* initialisation leaves neither an index nor an engine behind.
InitFailed(c) == c.call = "query" /\ c.init \notin {"skipped", "done"}

C16_SentinelOnInitFailure ==
    /\ \A i \in 1..Len(g_log) :
         InitFailed(g_log[i]) => (~g_log[i].raised /\ g_log[i].ret = NotReady)
    /\ (g_log # <<>> /\ InitFailed(g_log[Len(g_log)])) =>
         (g_index = None /\ g_engine = None)

C16_Witness ==
    /\ Len(g_log) = 3
    /\ g_log[1].call = "build_index" /\ ~g_log[1].raised
    /\ g_log[2].init = "build_communities" /\ g_log[2].ret = NotReady
    /\ g_log[3].init = "from_existing" /\ g_log[3].ret = NotReady

\* C19  In AgenticRAG.stream, after the tool results of an iteration are
\* appended to the history, the loop repeats from the model call: every
\* iteration that continues the loop is followed by a new submission, so
\* that on entering an iteration the model has been called once more than
\* the number of iterations completed.
C19_LoopResubmits ==
    s_pc = "loop" => s_submissions = s_iters + 1

\* C20  _extract_tool_calls returns only the structured tool calls, all of
\* them, whenever the response carries at least one structured call, and
\* calls read from reasoning_content only when it carries none; the list it
\* returns never holds calls of both encodings.
HasStructured(response) ==
    \/ response.kwargs_calls.is_list /\ response.kwargs_calls.items # <<>>
    \/ response.message_calls.is_list /\ response.message_calls.items # <<>>

StructuredCount(response) ==
    (IF response.kwargs_calls.is_list THEN Len(response.kwargs_calls.items) ELSE 0)
        + (IF response.message_calls.is_list THEN Len(response.message_calls.items) ELSE 0)

Encodings(calls) == {calls[i].encoding : i \in 1..Len(calls)}

C20_StructuredPreferred ==
    x_pc = "returned" =>
        /\ HasStructured(x_response) =>
             /\ Encodings(x_out) = {"structured"}
             /\ Len(x_out) = StructuredCount(x_response)
        /\ ~HasStructured(x_response) => Encodings(x_out) \subseteq {"embedded"}
        /\ Cardinality(Encodings(x_out)) <= 1

C20_Witness ==
    /\ x_pc = "returned"
    /\ HasStructured(x_response)
    /\ \E c \in 1..Len(x_response.reasoning) :
         \E b \in 1..Len(x_response.reasoning[c]) : x_response.reasoning[c][b].decodes
    /\ x_out # <<>>

C20_WitnessEmbedded ==
    /\ x_pc = "returned"
    /\ x_response.message_calls.is_list
    /\ ~HasStructured(x_response)
    /\ Len(x_out) = 2

\* The reasoning text given to _parse_reasoning_tool_calls when the response
\* has no structured call and one choice.
OnlyReasoning ==
    /\ x_pc = "returned"
    /\ ~HasStructured(x_response)
    /\ Len(x_response.reasoning) = 1

Decodable(blocks) == SelectSeq(blocks, LAMBDA b : b.decodes)

\* C21  _parse_reasoning_tool_calls yields one invocation for every block
\* whose JSON decodes, in order of appearance, skips every block whose JSON
\* does not decode without affecting the others, and numbers the yielded
\* invocations call_0, call_1, ... in output order.
C21_EveryDecodableBlock ==
    OnlyReasoning =>
        LET dec == Decodable(x_response.reasoning[1])
        IN  /\ Len(x_out) = Len(dec)
            /\ \A i \in 1..Len(x_out) :
                 x_out[i].name = dec[i].name /\ x_out[i].id = <<"call", i - 1>>

\* C22  When the arguments of a structured tool call are text that does not
\* decode as JSON, _parse_tool_call keeps the invocation with its tool name
\* and the arguments {"input": <raw text>}, and stream dispatches the call:
\* after an iteration that completed, the chunk of that call shows the tool
\* called with the wrapped raw text.
Undecodable(call) ==
    /\ call.encoding = "structured"
    /\ call.arguments.type = "str"
    /\ ~Decodes(call.arguments.value)

C23_BranchFailureContained ==
    /\ r_pc # "raised"
    /\ (r_pc = "returned" /\ r_failed = {"kg"}) => IdSet(r_out) = IdSet(r_vector)

\* The second half of C23 alone: with the vector branch working and the
\* graph branch failed, the vector nodes are returned.
C23_GraphFailureKeepsVector ==
    (r_pc = "returned" /\ r_failed = {"kg"}) => IdSet(r_out) = IdSet(r_vector)

\* C24  When both branches return a node with the same identifier, the node
\* _retrieve returns for that identifier is a node of the graph branch, in
\* mode AND and in mode OR.
C24_GraphNodeWins ==
    r_pc = "returned" =>
        \A i \in 1..Len(r_out) :
            (InBranch(r_vector, r_out[i].node_id) /\ InBranch(r_kg, r_out[i].node_id))
                => /\ r_out[i].origin = "kg"
                   /\ \E j \in 1..Len(r_kg) : r_kg[j] = r_out[i]

C24_Witness ==
    /\ r_pc = "returned"
    /\ r_mode = "AND"
    /\ \E i \in 1..Len(r_out) : InBranch(r_vector, r_out[i].node_id) /\ r_out[i].origin = "kg"
    /\ Len(r_vector) = 2 /\ Len(r_kg) = 2

IsPrefix(a, b) == Len(a) <= Len(b) /\ SubSeq(b, 1, Len(a)) = a

\* C25  Memory is append-only: the Memory before any step of the workflow
\* is a prefix of the Memory after it, so no step removes, reorders,
\* truncates or changes a message already stored.
C25_MemoryAppendOnly == [][IsPrefix(memory, memory')]_vars

C25_Witness ==
    /\ pc = "Done"
    /\ Len(memory) >= 8
    /\ ToolCount(memory) >= 2

\* C26  Dispatching a round of tool calls leaves the tool registry
\* unchanged: after handle_tool_calls, with known, unknown and failing
\* tools, the registered tools are the same as before.
C26_RegistryUnchanged == [][pc = "ToolCallPending" => tools' = tools]_vars

C26_Witness ==
    /\ pc = "AwaitingModel"
    /\ tools = Registry
    /\ \E i, j \in 1..Len(memory) :
         /\ memory[i].role = "tool" /\ IsError(memory[i])
         /\ memory[j].role = "tool" /\ ~IsError(memory[j])

C26_WitnessUnknown ==
    /\ pc = "Failed"
    /\ tools = Registry
    /\ dispatched >= 1

\* C27  prepare_chat_history resets sources and keeps the Memory stored in
\* the context: a run on the context of an earlier run starts with all
\* messages of that run followed by the new user message, and with no
\* source of that run.
C27_RerunKeepsMemory ==
    [][pc = "Start" =>
         /\ sources' = <<>>
         /\ Len(memory') = Len(memory) + 1
         /\ IsPrefix(memory, memory')
         /\ memory'[Len(memory')].role = "user"]_vars

C27_Witness ==
    /\ pc = "AwaitingModel"
    /\ Len(oplog) = 1
    /\ Len(memory) = 5
    /\ memory[5].role = "user"
    /\ memory[3].role = "tool" /\ ~IsError(memory[3])
    /\ sources = <<>>

\* C28  AgenticRAG.stream calls client.cleanup() exactly once on every exit
\* path (normal return, exception of a model call, exception of a tool
\* call), and not before it exits.
StreamExited == s_pc \in {"returned", "model_raised", "tool_raised"}

C28_CleanupOnce ==
    /\ StreamExited => s_cleanups = 1
    /\ (s_pc \in {"start", "loop", "after_loop"}) => s_cleanups = 0

C28_Witness ==
    /\ s_pc = "tool_raised"
    /\ s_dispatched >= 2
    /\ s_cleanups = 1

C28_WitnessModel ==
    /\ s_pc = "model_raised"
    /\ s_submissions = 2
    /\ s_cleanups = 1

\* C29  After any sequence of calls of the pipeline, query_engine is set
\* only if index is set; a query whose initialisation failed is followed by
\* a query that attempts the initialisation again; and once a query has left
\* the engine set, no later query runs the initialisation.
C29_EngineLifecycle ==
    /\ g_engine # None => g_index # None
    /\ \A i \in 1..Len(g_log) :
         (g_log[i].call = "query" /\ g_log[i].init \in {"skipped", "done"}) =>
            /\ \A j \in (i + 1)..Len(g_log) :
                 g_log[j].call = "query" => g_log[j].init = "skipped"
            /\ g_engine # None
    /\ \A i \in 1..(Len(g_log) - 1) :
         (InitFailed(g_log[i]) /\ g_log[i + 1].call = "query") =>
            g_log[i + 1].init # "skipped"

C29_Witness ==
    /\ Len(g_log) = 3
    /\ InitFailed(g_log[1])
    /\ g_log[2].call = "query" /\ g_log[2].init = "done"
    /\ g_log[3].call = "query" /\ g_log[3].init = "skipped"
    /\ g_engine # None

\* The files a call returned Documents for, and the lines of a record.
LoadedSources(c) == {c.documents[i].metadata.source : i \in 1..Len(c.documents)}
Listed(record) == {record[i] : i \in 1..Len(record)}
SourceList(c) == [i \in 1..Len(c.documents) |-> c.documents[i].metadata.source]

\* C30: a call of load_documents_from_json returns no Document for a file
\* that the processed-files record lists; a call whose write succeeds
\* appends to the record exactly the files it made Documents of; and when
\* every call wrote its record, no file is loaded by two calls.
C30_LoadedAtMostOnce ==
    /\ \A i \in 1..Len(l_log) :
         LoadedSources(l_log[i]) \cap Listed(l_log[i].before) = {}
    /\ \A i \in 1..Len(l_log) :
         ~l_log[i].write_failed =>
            l_log[i].after = l_log[i].before \o SourceList(l_log[i])
    /\ (\A i \in 1..Len(l_log) : ~l_log[i].write_failed) =>
          \A i, j \in 1..Len(l_log) :
             i < j => LoadedSources(l_log[i]) \cap LoadedSources(l_log[j]) = {}

\* The same for the calls that could read the record and for file names
\* without white space at their ends.
C30_PlainNamesLoadedOnce ==
    /\ \A i \in 1..Len(l_log) :
         ~l_log[i].read_failed =>
            \A f \in LoadedSources(l_log[i]) \cap Listed(l_log[i].before) : Strip(f) # f
    /\ \A i \in 1..Len(l_log) :
         ~l_log[i].write_failed =>
            l_log[i].after = l_log[i].before \o SourceList(l_log[i])
    /\ (\A i \in 1..Len(l_log) : ~l_log[i].write_failed /\ ~l_log[i].read_failed) =>
          \A i, j \in 1..Len(l_log) :
             i < j => \A f \in LoadedSources(l_log[i]) \cap LoadedSources(l_log[j]) :
                         Strip(f) # f

\* A second call skips what the first one recorded, with a file that is
\* not JSON left unrecorded.
C30_SkipsRecorded ==
    /\ Len(l_log) = 2
    /\ LoadedSources(l_log[1]) = {<<"a", ".json">>}
    /\ l_dir[<<"a", ".json">>] = "text"
    /\ \E f \in DOMAIN l_dir : l_dir[f] = "invalid" /\ f \notin Listed(l_record)
    /\ ~l_log[2].read_failed /\ ~l_log[2].raised
    /\ l_log[2].documents = <<>>

\* A file with white space in front of its name is loaded by both calls
\* although each call read and wrote the record.
C30_PaddedLoadedTwice ==
    /\ Len(l_log) = 2
    /\ \A i \in 1..2 : ~l_log[i].read_failed /\ ~l_log[i].write_failed
    /\ <<" ", "c", ".json">> \in LoadedSources(l_log[1]) \cap LoadedSources(l_log[2])

====
